---- MODULE Spec2Model ----
(***************************************************************************)
(* Model of transaction_verifier.py: the interactive Paystack transaction  *)
(* verifier.  The program is one sequential process; its state is the      *)
(* control position (pc), the locals of get_user_input and main, the last  *)
(* HTTP response, the rendered table and the console output.               *)
(*                                                                         *)
(* Python strings are sequences of one-character strings, so that          *)
(* str.lower() and str.title() are computed character by character.        *)
(* Python values that may be None are records [t |-> type, v |-> value].   *)
(* Python ints are unbounded: an int is a sequence of bits, most           *)
(* significant first, without leading zeros (0 is the empty sequence).     *)
(***************************************************************************)
EXTENDS Integers, Sequences, FiniteSets, TLC

VARIABLES
    pc,          \* control position of the program
    attempt,     \* get_user_input: loop variable of `for attempt in range(...)`
    key_local,   \* get_user_input: local api_key (text read at the key prompt)
    ref_local,   \* get_user_input: local reference (text read at the reference prompt)
    api_key,     \* main: api_key, first element of get_user_input's return value
    reference,   \* main: reference, second element of the return value
    http,        \* verify_paystack: outcome of requests.get / raise_for_status
    result_data, \* main: result_data, the value verify_paystack returned
    table,       \* display_results: the rich Table that was printed last
    out,         \* console output of the current main-loop iteration
    last_input,  \* what the user did at the prompt that was answered last
    iterations,  \* number of main-loop iterations started
    gets,        \* number of requests.get calls issued
    valid_inputs,\* number of get_user_input calls that returned a pair of strings
    prompts,     \* prompts shown by the current get_user_input call
    goodbyes     \* number of times "Goodbye!" was printed

vars == << pc, attempt, key_local, ref_local, api_key, reference, http,
           result_data, table, out, last_input, iterations, gets,
           valid_inputs, prompts, goodbyes >>

----------------------------------------------------------------------------
(* Bounds of the model *)

\* main-loop iterations explored ('y' is not answered beyond this)
MaxIterations == 2

----------------------------------------------------------------------------
(* Program constants *)

MAX_INPUT_ATTEMPTS == 3

QuitKeywords == { <<"q","u","i","t">>, <<"e","x","i","t">> }

----------------------------------------------------------------------------
(* Python values *)

NoneVal == [t |-> "None", v |-> <<>>]
Str(s)  == [t |-> "str", v |-> s]

\* bool(x) for the kinds of value the program tests
Truthy(x) ==
    CASE x.t = "None" -> FALSE
      [] x.t = "str"  -> Len(x.v) > 0
      [] x.t = "bool" -> x.v
      [] x.t = "dict" -> DOMAIN x.v # {}
      [] x.t = "int"  -> Len(x.v) > 0

----------------------------------------------------------------------------
(* str.lower() *)

LowerMap ==
    [ A |-> "a", B |-> "b", C |-> "c", D |-> "d", E |-> "e", F |-> "f",
      G |-> "g", H |-> "h", I |-> "i", J |-> "j", K |-> "k", L |-> "l",
      M |-> "m", N |-> "n", O |-> "o", P |-> "p", Q |-> "q", R |-> "r",
      S |-> "s", T |-> "t", U |-> "u", V |-> "v", W |-> "w", X |-> "x",
      Y |-> "y", Z |-> "z" ]

UpperLetters == DOMAIN LowerMap
LowerLetters == { LowerMap[c] : c \in UpperLetters }

LowerChar(c) == IF c \in UpperLetters THEN LowerMap[c] ELSE c
UpperChar(c) ==
    IF c \in LowerLetters THEN CHOOSE u \in UpperLetters : LowerMap[u] = c ELSE c

Lower(s) == [i \in 1..Len(s) |-> LowerChar(s[i])]

\* s.lower() in ['quit', 'exit']
IsQuitMutant(s) == s \in QuitKeywords
IsQuit(s) == Lower(s) \in QuitKeywords

----------------------------------------------------------------------------
(* What the user can do at a prompt *)

\* every spelling of keyword w in upper and lower case letters
CaseVariants(w) ==
    { s \in [1..Len(w) -> UNION { {w[i], UpperChar(w[i])} : i \in 1..Len(w) }] :
        Lower(s) = w }

QuitSpellings == UNION { CaseVariants(w) : w \in QuitKeywords }

\* texts typed at the secret-key prompt (getpass)
KeyTexts ==
    { <<>>, <<"s","k","_","1">>, <<" ","e","x","i","t">> }
      \cup QuitSpellings

\* texts typed at the reference prompt
ReferenceTexts ==
    { <<>>, <<"T","1">>, <<"q","u","i","t","s">> }
      \cup QuitSpellings

\* texts typed at the "verify another" prompt
AgainTexts ==
    { <<"y">>, <<"Y">>, <<"n">>, <<"N">>, <<>>, <<"y","e","s">>, <<" ","y">>,
      <<"q","u","i","t">>, <<"e","x","i","t">> }

Typed(s)  == [kind |-> "text", text |-> s]
CtrlC     == [kind |-> "KeyboardInterrupt", text |-> <<>>]
EndOfFile == [kind |-> "EOFError", text |-> <<>>]
NoInput   == [kind |-> "none", text |-> <<>>]

Inputs(texts) == { Typed(s) : s \in texts } \cup { CtrlC, EndOfFile }

----------------------------------------------------------------------------
(* Console output *)

Msg(m, n) == [msg |-> m, n |-> n]

Hint              == Msg("Type 'quit' or 'exit' at any time to leave.", 0)
EmptyWarning(n)   == Msg("API Key and Reference cannot be empty. You have n attempts left.", n)
TooManyAttempts   == Msg("Too many failed attempts. Exiting.", 0)
ApiError          == Msg("Error: message", 0)
RequestError      == Msg("An error occurred: e", 0)
CouldNotRetrieve  == Msg("Could not retrieve transaction details.", 0)
TablePrinted      == Msg("table", 0)
Separator         == Msg("----------------------------------------", 0)
Goodbye           == Msg("Goodbye!", 0)

Count(seq, m) == Cardinality({ i \in 1..Len(seq) : seq[i] = m })

----------------------------------------------------------------------------
(* get_user_input *)

\* get_user_input returns (k, r) to main, line 147
ReturnToMain(k, r) ==
    /\ api_key' = k
    /\ reference' = r
    /\ valid_inputs' = valid_inputs + (IF k = NoneVal THEN 0 ELSE 1)
    /\ pc' = "check_input"

\* lines 40-45: the hint, the key prompt, the quit test on the key
PromptKey ==
    /\ pc = "key_prompt"
    /\ \E inp \in Inputs(KeyTexts) :
        /\ last_input' = inp
        /\ prompts' = prompts + 1
        /\ out' = Append(out, Hint)
        /\ IF inp.kind # "text"
             THEN /\ ReturnToMain(NoneVal, NoneVal)
                  /\ UNCHANGED key_local
             ELSE /\ key_local' = inp.text
                  /\ IF IsQuit(inp.text)
                       THEN ReturnToMain(NoneVal, NoneVal)
                       ELSE /\ pc' = "ref_prompt"
                            /\ UNCHANGED << api_key, reference, valid_inputs >>
    /\ UNCHANGED << attempt, ref_local, http, result_data, table, iterations,
                    gets, goodbyes >>

\* if api_key and reference (line 54)
ValidPairMutant(k, r) == Len(k) > 0 \/ Len(r) > 0
ValidPair(k, r) == Len(k) > 0 /\ Len(r) > 0

\* remaining_attempts (line 58)
RemainingAttempts(a) == MAX_INPUT_ATTEMPTS - (a + 1)

\* for attempt in range(MAX_INPUT_ATTEMPTS): is there a next round after round a
HasNextRoundMutant(a) == a + 1 <= MAX_INPUT_ATTEMPTS
HasNextRound(a) == a + 1 < MAX_INPUT_ATTEMPTS

\* lines 48-71: the reference prompt, its quit test, the validity test, the
\* warning, the end of the for loop
PromptReference ==
    /\ pc = "ref_prompt"
    /\ \E inp \in Inputs(ReferenceTexts) :
        /\ last_input' = inp
        /\ prompts' = prompts + 1
        /\ IF inp.kind # "text"
             THEN /\ ReturnToMain(NoneVal, NoneVal)
                  /\ UNCHANGED << ref_local, attempt, out >>
             ELSE /\ ref_local' = inp.text
                  /\ IF IsQuit(inp.text)
                       THEN /\ ReturnToMain(NoneVal, NoneVal)
                            /\ UNCHANGED << attempt, out >>
                       ELSE IF ValidPair(key_local, inp.text)
                       THEN /\ ReturnToMain(Str(key_local), Str(inp.text))
                            /\ UNCHANGED << attempt, out >>
                       ELSE IF HasNextRound(attempt)
                       THEN /\ out' = Append(out, EmptyWarning(RemainingAttempts(attempt)))
                            /\ attempt' = attempt + 1
                            /\ pc' = "key_prompt"
                            /\ UNCHANGED << api_key, reference, valid_inputs >>
                       ELSE /\ out' = out \o << EmptyWarning(RemainingAttempts(attempt)),
                                                TooManyAttempts >>
                            /\ ReturnToMain(NoneVal, NoneVal)
                            /\ UNCHANGED attempt
    /\ UNCHANGED << key_local, http, result_data, table, iterations, gets,
                    goodbyes >>

----------------------------------------------------------------------------
(* Python int: arbitrary precision.  As in CPython an int is a sequence of  *)
(* 15-bit digits; here most significant first, no leading zero digit, 0 is  *)
(* the empty sequence.                                                      *)

DigitBits == 15
DigitBase == 2 ^ DigitBits

RECURSIVE FromNat(_)
\* the int with value n, for a natural n
FromNat(n) == IF n = 0 THEN <<>> ELSE Append(FromNat(n \div DigitBase), n % DigitBase)

ZeroDigits(k) == IF k <= 0 THEN <<>> ELSE [i \in 1..k |-> 0]

RECURSIVE Normalize(_)
Normalize(x) ==
    IF x = <<>> THEN <<>> ELSE IF x[1] # 0 THEN x ELSE Normalize(Tail(x))

RECURSIVE MulFrom(_, _, _, _)
\* digits i..1 of x times m, plus carry
MulFrom(x, i, m, carry) ==
    IF i = 0 THEN FromNat(carry)
    ELSE LET t == x[i] * m + carry
         IN  Append(MulFrom(x, i - 1, m, t \div DigitBase), t % DigitBase)

\* x * m for a natural m <= DigitBase
MulSmall(x, m) == Normalize(MulFrom(x, Len(x), m, 0))

\* x + c for a natural c <= DigitBase
AddSmall(x, c) == Normalize(MulFrom(x, Len(x), 1, c))

RECURSIVE DivFrom(_, _, _, _)
\* long division of x by the natural d <= DigitBase, from digit i on, with
\* remainder r so far
DivFrom(x, i, d, r) ==
    IF i > Len(x) THEN [q |-> <<>>, r |-> r]
    ELSE LET t    == r * DigitBase + x[i]
             rest == DivFrom(x, i + 1, d, t % d)
         IN  [q |-> << t \div d >> \o rest.q, r |-> rest.r]

\* divmod(x, d) for a natural d <= DigitBase: [q |-> x // d, r |-> x % d]
DivModSmall(x, d) ==
    LET res == DivFrom(x, 1, d, 0) IN [q |-> Normalize(res.q), r |-> res.r]

\* x << k
ShiftLeft(x, k) ==
    MulSmall(x, 2 ^ (k % DigitBits)) \o
      (IF x = <<>> THEN <<>> ELSE ZeroDigits(k \div DigitBits))

\* x >> k, and whether a 1 bit was shifted out
ShiftRight(x, k) ==
    LET w       == k \div DigitBits
        kept    == SubSeq(x, 1, Len(x) - w)
        dropped == SubSeq(x, Len(x) - w + 1, Len(x))
        dm      == DivModSmall(kept, 2 ^ (k % DigitBits))
    IN  IF w >= Len(x) THEN [q |-> <<>>, sticky |-> x # <<>>]
        ELSE [q |-> dm.q,
              sticky |-> dm.r # 0 \/ \E i \in 1..Len(dropped) : dropped[i] # 0]

\* int.bit_length() of a natural below DigitBase
SmallBitLength(n) == CHOOSE k \in 0..DigitBits : n < 2 ^ k /\ (k = 0 \/ n >= 2 ^ (k - 1))

\* int.bit_length()
BitLength(x) ==
    IF x = <<>> THEN 0 ELSE DigitBits * (Len(x) - 1) + SmallBitLength(x[1])

IsOdd(x) == x # <<>> /\ x[Len(x)] % 2 = 1

\* h * 2^k + n for naturals h, n < DigitBase^2 with n < 2^k: how the model
\* writes an int that is too large for a TLC integer
Big(h, k, n) ==
    LET hi   == ShiftLeft(FromNat(h), k)
        low2 == FromNat((hi[Len(hi) - 1] * DigitBase + hi[Len(hi)]) + n)
    IN  IF Len(hi) < 2 THEN FromNat((IF hi = <<>> THEN 0 ELSE hi[1]) + n)
        ELSE Normalize(SubSeq(hi, 1, Len(hi) - 2) \o ZeroDigits(2 - Len(low2)) \o low2)

----------------------------------------------------------------------------
(* Python float: an IEEE 754 double.  [mant, exp] is the number            *)
(* mant * 2^exp, where mant is an int of exactly MantBits bits; zero is    *)
(* [mant |-> <<>>, exp |-> 0].                                             *)

\* bits of precision of a double
MantBits == 53

FloatZero == [mant |-> <<>>, exp |-> 0]

\* round to nearest, ties to even: is the kept part rounded up, given whether
\* it is odd, the first dropped bit, and whether anything follows that bit
RoundsUp(odd, guard, sticky) == guard /\ (sticky \/ odd)

\* x rounded to x / 2^k, ties to even; `inexact` says that x itself already
\* lost a nonzero part
RoundShift(x, k, inexact) ==
    LET upper == ShiftRight(x, k - 1)
        kept  == ShiftRight(upper.q, 1).q
    IN  IF k = 0 THEN x
        ELSE IF RoundsUp(IsOdd(kept), IsOdd(upper.q), upper.sticky \/ inexact)
        THEN AddSmall(kept, 1)
        ELSE kept

\* line 122, amount / 100: int / int (true division) by a natural
\* d < DigitBase is the double nearest to the exact quotient.  As in
\* CPython's long_true_divide: shift n so that the integer quotient has
\* MantBits + 2 or + 3 bits, divide, and round the quotient to MantBits bits.
TrueDiv(n, d) ==
    IF n = <<>> THEN FloatZero
    ELSE LET shift   == (MantBits + 2 + SmallBitLength(d)) - BitLength(n)
             scaled  == IF shift >= 0 THEN [q |-> ShiftLeft(n, shift), sticky |-> FALSE]
                        ELSE ShiftRight(n, 0 - shift)
             dm      == DivModSmall(scaled.q, d)
             extra   == BitLength(dm.q) - MantBits
             rounded == RoundShift(dm.q, extra, scaled.sticky \/ dm.r # 0)
         IN  IF BitLength(rounded) = MantBits
               THEN [mant |-> rounded, exp |-> extra - shift]
               ELSE [mant |-> ShiftRight(rounded, 1).q, exp |-> extra - shift + 1]

----------------------------------------------------------------------------
(* format(x, ",.2f") *)

\* round(x * 100), ties to even, as an int: the digits the format prints
Hundredths(x) ==
    LET p == MulSmall(x.mant, 100)
    IN  IF x.exp >= 0 THEN ShiftLeft(p, x.exp)
        ELSE RoundShift(p, 0 - x.exp, FALSE)

DigitChars == << "0", "1", "2", "3", "4", "5", "6", "7", "8", "9" >>

DigitChar(d) == DigitChars[d + 1]

\* the three decimal digits of a group below 1000
Group3(g) == << DigitChar(g \div 100), DigitChar((g \div 10) % 10), DigitChar(g % 10) >>

\* the decimal digits of a natural below 1000, without leading zeros
Group1(g) ==
    IF g >= 100 THEN Group3(g)
    ELSE IF g >= 10 THEN << DigitChar(g \div 10), DigitChar(g % 10) >>
    ELSE << DigitChar(g) >>

RECURSIVE Grouped(_)
\* format(x, ","): the decimal digits of an int with a comma before every
\* group of three digits
Grouped(x) ==
    LET dm == DivModSmall(x, 1000)
    IN  IF dm.q = <<>> THEN Group1(dm.r)
        ELSE Grouped(dm.q) \o <<",">> \o Group3(dm.r)

\* the text for a number of hundredths c: whole part, ".", two digits
Money(c) ==
    LET dm == DivModSmall(c, 100)
    IN  Grouped(dm.q) \o << ".", DigitChar(dm.r \div 10), DigitChar(dm.r % 10) >>

\* f"{x:,.2f}" for a non-negative double x (line 127)
FormatAmount(x) == Money(Hundredths(x))

----------------------------------------------------------------------------
(* The API response *)

BoolVal(b) == [t |-> "bool", v |-> b]
IntVal(x)  == [t |-> "int", v |-> x]
DictVal(d) == [t |-> "dict", v |-> d]

EmptyDict == <<>>

\* d.get(k, default)
Get(d, k, default) == IF k \in DOMAIN d THEN d[k] ELSE default

\* d with key k set to v, d without key k
With(d, k, v) == [x \in DOMAIN d \cup {k} |-> IF x = k THEN v ELSE d[x]]
Without(d, k) == [x \in DOMAIN d \ {k} |-> d[x]]

NA == Str(<<"N","/","A">>)

\* amounts 0..MaxAmount of minor units are explored one by one
MaxAmount == 120
\* and the amounts 100 * 2^46 + 0..MaxOffset, 100 * 2^46 - 1 - (0..MaxOffset)
MaxOffset == 12

\* 100 * 2^46 - 1 = (100 * 2^16 - 1) * 2^30 + (2^30 - 1)
Amounts ==
    { FromNat(n) : n \in 0..MaxAmount }
      \cup { FromNat(n) : n \in { 999, 1000, 12345, 99999, 100000, 123456789, 2147483647 } }
      \cup { Big(100, 46, n) : n \in 0..MaxOffset }
      \cup { Big(100 * 2^16 - 1, 30, (2^30 - 1) - n) : n \in 0..MaxOffset }

Statuses ==
    { <<"s","u","c","c","e","s","s">>, <<"S","u","c","c","e","s","s">>,
      <<"f","a","i","l","e","d">>, <<"s","u","c","c","e","s","s"," ">> }

TxBase ==
    [ status     |-> Str(<<"s","u","c","c","e","s","s">>),
      reference  |-> Str(<<"T","1">>),
      amount     |-> IntVal(FromNat(12345)),
      currency   |-> Str(<<"N","G","N">>),
      customer   |-> DictVal([email |-> Str(<<"a","@","b">>)]),
      paid_at    |-> Str(<<"d","1">>),
      created_at |-> Str(<<"d","0">>),
      channel    |-> Str(<<"c","a","r","d">>) ]

\* the `data` payloads explored: every amount, every status with and without
\* amount and currency, and each optional field left out
TxDatas ==
    { With(TxBase, "amount", IntVal(a)) : a \in Amounts }
      \cup { With(d, "status", Str(st)) :
               st \in Statuses,
               d \in { TxBase, Without(TxBase, "amount"), Without(TxBase, "currency") } }
      \cup { Without(d, "status") :
               d \in { TxBase, Without(TxBase, "amount"), Without(TxBase, "currency") } }
      \cup { Without(TxBase, k) : k \in DOMAIN TxBase }
      \cup { Without(Without(TxBase, "paid_at"), "created_at"),
             With(TxBase, "paid_at", NoneVal),
             With(TxBase, "customer", DictVal(EmptyDict)) }

\* the JSON bodies of a 2xx response
Bodies ==
    { [status |-> BoolVal(TRUE), message |-> Str(<<"o","k">>), data |-> DictVal(d)] :
        d \in TxDatas \cup {EmptyDict} }
      \cup { [status |-> BoolVal(TRUE), message |-> Str(<<"o","k">>)],
             [status |-> BoolVal(TRUE), message |-> Str(<<"o","k">>), data |-> NoneVal],
             [status |-> BoolVal(FALSE), message |-> Str(<<"n","o">>)],
             [status |-> BoolVal(FALSE), message |-> Str(<<"n","o">>), data |-> DictVal(TxBase)],
             [message |-> Str(<<"n","o">>), data |-> DictVal(TxBase)] }

NoResponse == [kind |-> "none", body |-> EmptyDict]
Failed(k)  == [kind |-> k, body |-> EmptyDict]
Ok(b)      == [kind |-> "ok", body |-> b]

\* what lines 91-94 can do: requests.get raises ConnectionError or Timeout,
\* raise_for_status raises HTTPError for a 4xx/5xx status, response.json()
\* raises JSONDecodeError for a 2xx body that is no JSON (a RequestException
\* since requests 2.27), or a 2xx response gives a JSON object
RequestExceptions == { "ConnectionError", "Timeout", "HTTPError", "JSONDecodeError" }

HttpOutcomes ==
    { Failed(k) : k \in RequestExceptions \cup {"KeyboardInterrupt"} }
      \cup { Ok(b) : b \in Bodies }

----------------------------------------------------------------------------
(* verify_paystack *)

\* lines 94-103: the value returned for an outcome of the request
VerifyResultMutant(h) ==
    IF h.kind # "ok" THEN NoneVal ELSE Get(h.body, "data", NoneVal)
VerifyResult(h) ==
    IF h.kind # "ok" THEN NoneVal
    ELSE IF Truthy(Get(h.body, "status", NoneVal)) THEN Get(h.body, "data", NoneVal)
    ELSE NoneVal

\* lines 98 and 102: what verify_paystack prints for an outcome
VerifyOutput(h) ==
    IF h.kind # "ok" THEN << RequestError >>
    ELSE IF Truthy(Get(h.body, "status", NoneVal)) THEN << >>
    ELSE << ApiError >>

\* lines 84-103: one GET; a KeyboardInterrupt is no RequestException and
\* leaves verify_paystack and main
VerifyPaystack ==
    /\ pc = "verify"
    /\ \E h \in HttpOutcomes :
        /\ http' = h
        /\ gets' = gets + 1
        /\ IF h.kind = "KeyboardInterrupt"
             THEN /\ pc' = "interrupted"
                  /\ UNCHANGED << result_data, out >>
             ELSE /\ result_data' = VerifyResult(h)
                  /\ out' = out \o VerifyOutput(h)
                  /\ pc' = "display"
    /\ UNCHANGED << attempt, key_local, ref_local, api_key, reference, table,
                    last_input, iterations, valid_inputs, prompts, goodbyes >>

----------------------------------------------------------------------------
(* display_results *)

IsCased(c) == c \in UpperLetters \cup LowerLetters

\* str.title(): a letter that follows no letter is made upper case, every
\* other letter lower case
Title(s) ==
    [i \in 1..Len(s) |->
        IF i = 1 \/ ~IsCased(s[i - 1]) THEN UpperChar(s[i]) ELSE LowerChar(s[i])]

Row(f, val, sty) == [field |-> f, value |-> val, style |-> sty]

\* lines 133-136: the style of the Status row
StatusStyleMutant(status) ==
    IF Lower(status.v) = <<"s","u","c","c","e","s","s">> THEN "bold green" ELSE "bold red"
StatusStyle(status) ==
    IF status = Str(<<"s","u","c","c","e","s","s">>) THEN "bold green" ELSE "bold red"

\* lines 122 and 127: the text of the Amount row
AmountText(data) ==
    LET amount   == TrueDiv(Get(data, "amount", IntVal(FromNat(0))).v, 100)
        currency == Get(data, "currency", Str(<<>>))
    IN  FormatAmount(amount) \o << " " >> \o currency.v

\* lines 125-130: the rows in the order they are added
TableRows(data) ==
    LET status == Get(data, "status", NA)
    IN  << Row("Status", Str(Title(status.v)), StatusStyle(status)),
           Row("Reference", Get(data, "reference", NA), "none"),
           Row("Amount", Str(AmountText(data)), "none"),
           Row("Customer Email",
               Get(Get(data, "customer", DictVal(EmptyDict)).v, "email", NA), "none"),
           Row("Transaction Date",
               Get(data, "paid_at", Get(data, "created_at", NA)), "none"),
           Row("Channel", Get(data, "channel", NA), "none") >>

NoTable == << >>

\* line 112: if not data
HasDataMutant(data) == data.t # "None"
HasData(data) == Truthy(data)

\* display_results(result_data), then the separator of line 156
DisplayResults ==
    /\ pc = "display"
    /\ IF HasData(result_data)
         THEN /\ table' = TableRows(result_data.v)
              /\ out' = out \o << TablePrinted, Separator >>
         ELSE /\ table' = NoTable
              /\ out' = out \o << CouldNotRetrieve, Separator >>
    /\ pc' = "again_prompt"
    /\ UNCHANGED << attempt, key_local, ref_local, api_key, reference, http,
                    result_data, last_input, iterations, gets, valid_inputs,
                    prompts, goodbyes >>

----------------------------------------------------------------------------
(* main and the __main__ block *)

\* a new main-loop iteration calls get_user_input; the locals of the calls of
\* the iteration before are dead, and the output window starts again
StartIteration ==
    /\ pc' = "key_prompt"
    /\ iterations' = iterations + 1
    /\ attempt' = 0
    /\ prompts' = 0
    /\ key_local' = <<>>
    /\ ref_local' = <<>>
    /\ api_key' = NoneVal
    /\ reference' = NoneVal
    /\ http' = NoResponse
    /\ result_data' = NoneVal
    /\ table' = NoTable
    /\ out' = <<>>

\* line 143 and the first pass of `while True`
PrintHeader ==
    /\ pc = "start"
    /\ StartIteration
    /\ UNCHANGED << last_input, gets, valid_inputs, goodbyes >>

\* line 150: if not api_key: break
BreaksOnInputMutant(k) == FALSE
BreaksOnInput(k) == ~Truthy(k)

CheckInput ==
    /\ pc = "check_input"
    /\ IF BreaksOnInput(api_key)
         THEN pc' = "goodbye"
         ELSE pc' = "verify"
    /\ UNCHANGED << attempt, key_local, ref_local, api_key, reference, http,
                    result_data, table, out, last_input, iterations, gets,
                    valid_inputs, prompts, goodbyes >>

\* line 158: again != 'y' (again is the lower-cased answer)
WantsAnotherMutant(text) == Lower(text) \in { <<"y">>, <<"y","e","s">> }
WantsAnother(text) == Lower(text) = <<"y">>

\* lines 157-159: the "verify another" prompt.  KeyboardInterrupt reaches the
\* handler of the __main__ block; EOFError is caught nowhere.
PromptAgain ==
    /\ pc = "again_prompt"
    /\ \E inp \in Inputs(AgainTexts) :
        /\ last_input' = inp
        /\ IF inp.kind = "KeyboardInterrupt"
             THEN /\ pc' = "interrupted"
                  /\ UNCHANGED << attempt, key_local, ref_local, api_key, reference,
                                  http, result_data, table, out, iterations, prompts >>
           ELSE IF inp.kind = "EOFError"
             THEN /\ pc' = "crashed"
                  /\ UNCHANGED << attempt, key_local, ref_local, api_key, reference,
                                  http, result_data, table, out, iterations, prompts >>
           ELSE IF WantsAnother(inp.text)
             THEN /\ iterations < MaxIterations
                  /\ StartIteration
             ELSE /\ pc' = "goodbye"
                  /\ UNCHANGED << attempt, key_local, ref_local, api_key, reference,
                                  http, result_data, table, out, iterations, prompts >>
    /\ UNCHANGED << gets, valid_inputs, goodbyes >>

\* line 161, after the loop
PrintGoodbye ==
    /\ pc = "goodbye"
    /\ out' = Append(out, Goodbye)
    /\ goodbyes' = goodbyes + 1
    /\ pc' = "done"
    /\ UNCHANGED << attempt, key_local, ref_local, api_key, reference, http,
                    result_data, table, last_input, iterations, gets,
                    valid_inputs, prompts >>

\* lines 167-170: except KeyboardInterrupt in the __main__ block
HandleInterrupt ==
    /\ pc = "interrupted"
    /\ out' = Append(out, Goodbye)
    /\ goodbyes' = goodbyes + 1
    /\ pc' = "done"
    /\ UNCHANGED << attempt, key_local, ref_local, api_key, reference, http,
                    result_data, table, last_input, iterations, gets,
                    valid_inputs, prompts >>

----------------------------------------------------------------------------
(* The program *)

Init ==
    /\ pc = "start"
    /\ attempt = 0
    /\ key_local = <<>>
    /\ ref_local = <<>>
    /\ api_key = NoneVal
    /\ reference = NoneVal
    /\ http = NoResponse
    /\ result_data = NoneVal
    /\ table = NoTable
    /\ out = <<>>
    /\ last_input = NoInput
    /\ iterations = 0
    /\ gets = 0
    /\ valid_inputs = 0
    /\ prompts = 0
    /\ goodbyes = 0

Next ==
    \/ PrintHeader
    \/ PromptKey
    \/ PromptReference
    \/ CheckInput
    \/ VerifyPaystack
    \/ DisplayResults
    \/ PromptAgain
    \/ PrintGoodbye
    \/ HandleInterrupt

Spec == Init /\ [][Next]_vars

----------------------------------------------------------------------------
(* Properties *)

InGetUserInput == pc \in { "key_prompt", "ref_prompt" }

Warnings == SelectSeq(out, LAMBDA m : m.msg = EmptyWarning(0).msg)

\* the step that answers the reference prompt with a text that is no quit
\* keyword, in a round whose key or reference is empty
RejectedRound ==
    /\ pc = "ref_prompt"
    /\ last_input'.kind = "text"
    /\ last_input'.text \notin QuitSpellings
    /\ key_local = <<>> \/ last_input'.text = <<>>

C1_Rejected ==
    RejectedRound =>
        /\ Warnings' = Append(Warnings, EmptyWarning(MAX_INPUT_ATTEMPTS - Len(Warnings')))
        /\ IF Len(Warnings') < MAX_INPUT_ATTEMPTS
             THEN pc' = "key_prompt" /\ out' = Append(out, Warnings'[Len(Warnings')])
             ELSE /\ pc' = "check_input"
                  /\ api_key' = NoneVal /\ reference' = NoneVal
                  /\ out' = out \o << Warnings'[Len(Warnings')], TooManyAttempts >>

C1_Bounded ==
    /\ Len(Warnings) <= MAX_INPUT_ATTEMPTS
    /\ \A i \in 1..Len(Warnings) : Warnings[i].n = MAX_INPUT_ATTEMPTS - i
    /\ prompts <= 2 * MAX_INPUT_ATTEMPTS
    /\ InGetUserInput => Len(Warnings) < MAX_INPUT_ATTEMPTS
    /\ Count(out, TooManyAttempts) = (IF Len(Warnings) = MAX_INPUT_ATTEMPTS THEN 1 ELSE 0)

\* C1: in one call of get_user_input a round with no quit keyword and an
\* empty key or reference is rejected with a warning that states
\* MAX_INPUT_ATTEMPTS minus the rounds used so far (2, 1, 0); after
\* MAX_INPUT_ATTEMPTS = 3 such rounds the too-many-attempts message is printed
\* and (None, None) returned, no 4th round starts, and a call shows at most
\* 6 prompts.
C1_EmptyInputRejected == [](C1_Bounded) /\ [][C1_Rejected]_vars

\* three rejected rounds, then the return of (None, None)
C1_Witness ==
    /\ pc = "check_input"
    /\ Len(Warnings) = 3
    /\ prompts = 6
    /\ out[Len(out)] = TooManyAttempts

QuitAtKeyPrompt ==
    pc = "key_prompt" /\ last_input'.kind = "text" /\ last_input'.text \in QuitSpellings
QuitAtRefPrompt ==
    pc = "ref_prompt" /\ last_input'.kind = "text" /\ last_input'.text \in QuitSpellings

C2_Step ==
    /\ QuitAtKeyPrompt \/ QuitAtRefPrompt =>
          /\ pc' = "check_input"
          /\ api_key' = NoneVal /\ reference' = NoneVal
          /\ prompts' = prompts + 1
          /\ Warnings' = Warnings
          /\ gets' = gets
    /\ pc = "check_input" /\ api_key = NoneVal => pc' = "goodbye" /\ gets' = gets
    /\ pc = "goodbye" => pc' = "done" /\ gets' = gets /\ out' = Append(out, Goodbye)

\* C2: "quit" or "exit" in any letter case at the key prompt or at the
\* reference prompt makes get_user_input return (None, None) at once (after
\* a quit at the key prompt no reference prompt is shown; a quit at the
\* reference prompt aborts also when the key was empty), no GET is issued in
\* that iteration, and main leaves its loop and prints Goodbye.
C2_QuitAborts ==
    /\ [](pc \in { "check_input", "goodbye" } /\ api_key = NoneVal => http = NoResponse)
    /\ [][C2_Step]_vars

\* EXIT typed at the reference prompt after an empty key, and the program over
C2_Witness ==
    /\ pc = "done"
    /\ key_local = <<>>
    /\ last_input = Typed(<<"E","X","I","T">>)
    /\ ref_local = <<"E","X","I","T">>
    /\ goodbyes = 1
    /\ gets = 0

\* get_user_input has returned a pair and the GET for it is the next thing
\* main does
GetPending == pc = "verify" \/ (pc = "check_input" /\ api_key # NoneVal)

\* C3: every main-loop iteration issues at most one GET: one when
\* get_user_input returned a pair, none when it returned (None, None); a
\* failed request is not retried, so the number of GETs is the number of
\* iterations that obtained valid input (counting the GET that is pending
\* right after get_user_input returned a pair).
C3_OneGetPerValidInput ==
    /\ gets <= iterations
    /\ valid_inputs = gets + (IF GetPending THEN 1 ELSE 0)

\* two iterations, both with a request, the second request failed
C3_Witness ==
    /\ pc = "again_prompt"
    /\ iterations = 2
    /\ gets = 2
    /\ http.kind = "Timeout"

FlagFalse(h) ==
    /\ h.kind = "ok"
    /\ "status" \in DOMAIN h.body => h.body["status"] = BoolVal(FALSE)

C4_Step ==
    /\ pc = "verify" /\ (http'.kind \in RequestExceptions \/ FlagFalse(http')) =>
          /\ pc' = "display"
          /\ result_data' = NoneVal
          /\ \E m \in { RequestError, ApiError } : out' = Append(out, m)
    /\ pc = "display" /\ result_data = NoneVal =>
          /\ pc' = "again_prompt"
          /\ out' = out \o << CouldNotRetrieve, Separator >>
          /\ iterations' = iterations
    /\ pc = "again_prompt" /\ last_input' = Typed(<<"y">>) =>
          /\ pc' = "key_prompt"
          /\ iterations' = iterations + 1
          /\ prompts' = 0

\* C4: a network failure, an HTTP 4xx/5xx status or a response whose status
\* flag is false does not end the program: verify_paystack prints one error
\* message and returns None, display_results prints the could-not-retrieve
\* message, control reaches the "verify another" prompt of the same
\* iteration, and the answer y starts a new round of prompts.
C4_FailureDoesNotEnd == [][C4_Step]_vars

\* the flag of the response was false, and the "verify another" prompt is up
C4_Witness ==
    /\ pc = "again_prompt"
    /\ FlagFalse(http)
    /\ out[Len(out) - 2] = ApiError
    /\ out[Len(out) - 1] = CouldNotRetrieve

\* C5: the program ends only by normal completion or by a handled
\* interrupt: on every exit path, Ctrl+C or end-of-input at any of the three
\* prompts included, "Goodbye!" is printed exactly once and no exception
\* escapes unhandled.
C5_GoodbyeOnEveryExit ==
    /\ pc # "crashed"
    /\ goodbyes <= 1
    /\ pc = "done" => goodbyes = 1

\* the exit paths the handlers do cover: everything but end-of-input at the
\* "verify another" prompt
C5_HandledExits ==
    /\ goodbyes <= 1
    /\ pc = "done" => goodbyes = 1
    /\ pc = "crashed" => last_input = EndOfFile /\ goodbyes = 0

TableShown == pc = "again_prompt" /\ table # NoTable

ShownAmount == Get(result_data.v, "amount", IntVal(FromNat(0))).v
ShownCurrency == Get(result_data.v, "currency", Str(<<>>)).v

\* C6: the Amount row shows, for every non-negative integer amount a, the
\* whole part a div 100 and the two-digit fractional part a mod 100, followed
\* by the currency code; with no amount field it shows 0.00.
C6_AmountDividedBy100 ==
    TableShown =>
        /\ table[3].field = "Amount"
        /\ table[3].value = Str(Money(ShownAmount) \o <<" ">> \o ShownCurrency)

\* 100 * 2^46 minor units: from here on a double no longer tells hundredths apart
ExactLimit == Big(100, 46, 0)

\* a < b for two ints
Less(a, b) ==
    \/ Len(a) < Len(b)
    \/ /\ Len(a) = Len(b)
       /\ \E i \in 1..Len(a) :
            /\ a[i] < b[i]
            /\ \A j \in 1..(i - 1) : a[j] = b[j]

\* what holds of the Amount row: it is exact for amounts below 100 * 2^46
C6_ExactBelowLimit ==
    TableShown /\ Less(ShownAmount, ExactLimit) =>
        table[3].value = Str(Money(ShownAmount) \o <<" ">> \o ShownCurrency)

ShownStatus == Get(result_data.v, "status", NA)

\* C7: the Status row is styled bold green if and only if the status field
\* is exactly 'success'; for every other value, a missing status (shown as
\* N/A) and 'Success' included, it is bold red; no other row's style depends
\* on the status.
C7_StatusStyle ==
    TableShown =>
        /\ table[1].field = "Status"
        /\ table[1].style =
             (IF "status" \in DOMAIN result_data.v
                   /\ result_data.v["status"].v = <<"s","u","c","c","e","s","s">>
                THEN "bold green" ELSE "bold red")
        /\ "status" \notin DOMAIN result_data.v => table[1].value = NA
        /\ \A i \in 2..Len(table) : table[i].style = "none"

\* the status 'Success' of the response, shown in bold red
C7_Witness ==
    /\ TableShown
    /\ ShownStatus = Str(<<"S","u","c","c","e","s","s">>)
    /\ table[1].style = "bold red"

C8_Step ==
    /\ pc = "display" => pc' = "again_prompt"
    /\ pc = "again_prompt" /\ last_input'.kind = "text" =>
          /\ last_input'.text \in { <<"y">>, <<"Y">> }
               <=> (pc' = "key_prompt" /\ iterations' = iterations + 1)
          /\ last_input'.text \notin { <<"y">>, <<"Y">> }
               <=> (pc' = "goodbye" /\ iterations' = iterations)
    /\ pc = "goodbye" =>
          /\ pc' = "done"
          /\ out' = Append(out, Goodbye)
          /\ gets' = gets /\ prompts' = prompts /\ last_input' = last_input

\* C8: after each verification main asks once whether to verify another
\* transaction; another iteration runs exactly when the lower-cased answer
\* is 'y'; any other answer ends the loop and prints Goodbye with no further
\* prompt or request.
C8_RepeatOnlyOnY == [][C8_Step]_vars

\* Y was answered and the second iteration began
C8_Witness ==
    /\ pc = "key_prompt"
    /\ iterations = 2
    /\ last_input = Typed(<<"Y">>)

TableFields == [i \in 1..Len(table) |-> table[i].field]

\* the GET gave a 2xx response whose status flag is truthy and whose data
\* payload is a non-empty dict
Retrieved ==
    /\ http.kind = "ok"
    /\ "status" \in DOMAIN http.body
    /\ http.body["status"] = BoolVal(TRUE)
    /\ "data" \in DOMAIN http.body
    /\ http.body["data"].t = "dict"
    /\ DOMAIN http.body["data"].v # {}

\* C9: the table is rendered if and only if the GET raised no request
\* exception, the HTTP status was not 4xx/5xx, the status flag of the body is
\* truthy and the data payload is non-empty; otherwise no table is printed
\* and the could-not-retrieve message is printed; the table has the six rows
\* Status, Reference, Amount (with currency), Customer Email, Transaction
\* Date, Channel in this order.
C9_TableIffRetrieved ==
    pc = "again_prompt" =>
        /\ Retrieved <=> table # NoTable
        /\ Count(out, TablePrinted) = (IF Retrieved THEN 1 ELSE 0)
        /\ Count(out, CouldNotRetrieve) = (IF Retrieved THEN 0 ELSE 1)
        /\ Retrieved =>
             /\ TableFields = << "Status", "Reference", "Amount", "Customer Email",
                                 "Transaction Date", "Channel" >>
             /\ \E n \in 1..Len(table[3].value.v) :
                    SubSeq(table[3].value.v, n, Len(table[3].value.v))
                      = <<" ">> \o ShownCurrency

\* a table on the console
C9_Witness ==
    /\ pc = "again_prompt"
    /\ Retrieved
    /\ Len(table) = 6
    /\ out[Len(out) - 1] = TablePrinted

Usable(x) == x.t = "str" /\ x.v # <<>> /\ x.v \notin QuitSpellings

\* C10: verify_paystack is only called with a key and a reference that are
\* non-empty strings and no quit keyword in any letter case; get_user_input
\* returns (None, None) or a pair of two such strings.
C10_OnlyUsablePairs ==
    /\ pc = "check_input" =>
          \/ api_key = NoneVal /\ reference = NoneVal
          \/ Usable(api_key) /\ Usable(reference)
    /\ pc = "verify" \/ http # NoResponse => Usable(api_key) /\ Usable(reference)

\* the key " exit" and the reference "quits" are passed on
C10_Witness ==
    /\ pc = "verify"
    /\ api_key = Str(<<" ","e","x","i","t">>)
    /\ reference = Str(<<"q","u","i","t","s">>)

====
